---- MODULE Spec2Model ----
(***************************************************************************)
(* Soul Protocol Registry: the identity verification core.                 *)
(*                                                                         *)
(* The registry server (Hono handlers), its sql.js store (RegistryDB) and  *)
(* the crypto helpers, as a state machine.  A handler runs synchronously   *)
(* between two awaits, so every handler is split at its                    *)
(* `await verifySignature(...)`: a Start step (body parsing and every gate *)
(* before the await) and a Finish step (everything after it).  Other       *)
(* requests, the sweep timer and the clock may run between the two.        *)
(*                                                                         *)
(* Text is a sequence of one-character strings, so that toLowerCase,       *)
(* startsWith and the template literals are computed, not assumed.         *)
(* Time is counted in minutes.                                             *)
(***************************************************************************)
EXTENDS Integers, Sequences, FiniteSets, TLC

VARIABLES
    now,          \* the server clock (new Date()), in minutes
    souls,        \* table souls: a sequence of rows, row i has id i
    challenges,   \* table challenges: challengeId -> row
    nextChallenge,\* the next challengeId generateChallengeId() returns
    pc,           \* per request: "idle", "await" (suspended at verifySignature), "done"
    req,          \* per request: its inputs and the locals it captured before the await
    resp          \* per request: the response it returned

vars == <<now, souls, challenges, nextChallenge, pc, req, resp>>

(***************************************************************************)
(* Bounds of the model.                                                    *)
(***************************************************************************)
MaxRegisterRequests == 2   \* register requests in the registration system
MaxRequests == 2           \* requests in the challenge and the update systems
MaxLifeRequests == 2       \* requests in the system of the whole registry
MaxMinute == 6             \* the clock ticks up to this minute
MaxDay == 1                \* and jumps to midnight up to this day

Reqs == DOMAIN pc

NULL == "null"

\* An optional value (a nullable column, an optional property).
None == << >>
Some(x) == <<x>>

(***************************************************************************)
(* Text.                                                                   *)
(***************************************************************************)
DidPrefix == <<"d", "i", "d", ":", "s", "o", "u", "l", ":">>
UpperDidPrefix == <<"D", "I", "D", ":", "S", "O", "U", "L", ":">>

NameChars == {"a", "b", "A", "B"}

LowerChar(c) ==
    CASE c = "A" -> "a"
      [] c = "B" -> "b"
      [] c = "D" -> "d"
      [] c = "I" -> "i"
      [] c = "S" -> "s"
      [] c = "O" -> "o"
      [] c = "U" -> "u"
      [] c = "L" -> "l"
      [] OTHER -> c

toLowerCase(s) == [i \in 1..Len(s) |-> LowerChar(s[i])]

startsWith(s, p) == Len(s) >= Len(p) /\ SubSeq(s, 1, Len(p)) = p

\* /^[a-z0-9_-]+$/i
NameRegex(s) == Len(s) >= 1 /\ \A i \in 1..Len(s) : s[i] \in NameChars

\* /^did:soul:[a-z0-9_-]+$/i
DidSchema(s) ==
    /\ Len(s) > Len(DidPrefix)
    /\ toLowerCase(SubSeq(s, 1, Len(DidPrefix))) = DidPrefix
    /\ NameRegex(SubSeq(s, Len(DidPrefix) + 1, Len(s)))

(***************************************************************************)
(* Keys and signatures.  Ed25519 is taken as ideal: a signature verifies   *)
(* exactly for the message it was made over and the public key of the      *)
(* private key that made it; anything that does not decode verifies for    *)
(* nothing.  SHA-512 is taken as collision free.                           *)
(***************************************************************************)
PrivateKeys == {"sk1", "sk2"}
PublicKeyOf(k) ==
    CASE k = "sk1" -> "pk1"
      [] k = "sk2" -> "pk2"
      [] OTHER -> NULL
PublicKeys == {PublicKeyOf(k) : k \in PrivateKeys}

Sign(k, msg) == [signer |-> k, msg |-> msg]
\* The empty string in the place of a signature.
EmptyString == [signer |-> "", msg |-> << >>]

verifySignature(message, signature, publicKey) ==
    /\ signature.signer \in PrivateKeys
    /\ PublicKeyOf(signature.signer) = publicKey
    /\ signature.msg = message

sha512(bytes) == <<"sha512", bytes>>

(***************************************************************************)
(* hashSoulDocument: JSON.stringify(doc, Object.keys(doc).sort()), hashed. *)
(* A document is a function from its keys; birth and contact are nested    *)
(* objects.  An array replacer is a property allow-list that JSON.stringify*)
(* applies to every object it serialises, at every depth, and that fixes   *)
(* the order of the properties.                                            *)
(***************************************************************************)
KeysSorted ==
    <<"avatar", "baseModel", "birth", "charterHash", "contact", "description",
      "did", "email", "name", "operator", "platform", "publicKey", "timestamp",
      "website">>

ObjectKeys == {"birth", "contact"}

\* Object.keys(obj).sort()
SortedKeys(obj) == SelectSeq(KeysSorted, LAMBDA k : k \in DOMAIN obj)

RECURSIVE StringifyList(_, _, _, _)
\* JSON.stringify(obj, replacer): the properties of obj named by replacer, in
\* replacer's order; a nested object is serialised with the same replacer.
StringifyList(obj, replacer, i, depth) ==
    IF i > Len(replacer) THEN << >>
    ELSE LET k == replacer[i]
             rest == StringifyList(obj, replacer, i + 1, depth)
         IN IF k \notin DOMAIN obj THEN rest
            ELSE IF k \in ObjectKeys /\ depth = 0
                 THEN << <<k, StringifyList(obj[k], replacer, 1, depth + 1)>> >> \o rest
                 ELSE << <<k, obj[k]>> >> \o rest

Stringify(obj, replacer) == StringifyList(obj, replacer, 1, 0)

hashSoulDocument(doc) == sha512(Stringify(doc, SortedKeys(doc)))

(***************************************************************************)
(* The same with the order of the properties kept.  A JavaScript object    *)
(* lists its properties in insertion order: here an object is a sequence   *)
(* of <<key, value>> entries, and the value under birth or contact is an   *)
(* object again.  The server's hashSoulDocument and the reference client's *)
(* are both computed on such objects.                                      *)
(***************************************************************************)
\* Object.keys(obj)
keys(obj) == [i \in 1..Len(obj) |-> obj[i][1]]

\* obj[k] for a key the object has
get(obj, k) == obj[CHOOSE i \in 1..Len(obj) : obj[i][1] = k][2]

\* The place of a key in the order of UTF-16 code units.
Rank(k) == CHOOSE i \in 1..Len(KeysSorted) : KeysSorted[i] = k

\* A canonicalisation that leaves the keys in the order it finds them.
unsorted(ks) == ks

\* Array.prototype.sort() on an array of keys
sort(ks) == SortSeq(ks, LAMBDA a, b : Rank(a) < Rank(b))

RECURSIVE JSONStringifyReplacer(_, _, _)
\* JSON.stringify(obj, replacer) from the i-th name of the replacer on: the
\* properties named by the replacer, in the replacer's order, nested objects
\* with the same replacer.
JSONStringifyReplacer(obj, replacer, i) ==
    IF i > Len(replacer) THEN << >>
    ELSE LET k == replacer[i]
             rest == JSONStringifyReplacer(obj, replacer, i + 1)
         IN IF \A j \in 1..Len(obj) : obj[j][1] # k THEN rest
            ELSE IF k \in ObjectKeys
                 THEN << <<k, JSONStringifyReplacer(get(obj, k), replacer, 1)>> >> \o rest
                 ELSE << <<k, get(obj, k)>> >> \o rest

RECURSIVE JSONStringify(_)
\* JSON.stringify(obj): every property, in insertion order.
JSONStringify(obj) ==
    [i \in 1..Len(obj) |->
        IF obj[i][1] \in ObjectKeys
        THEN <<obj[i][1], JSONStringify(obj[i][2])>>
        ELSE obj[i]]

\* db.ts hashSoulDocument, on an object with its property order.
serverHashSoulDocument(doc) == sha512(JSONStringifyReplacer(doc, sort(keys(doc)), 1))

RECURSIVE sortObjectKeys(_)
\* The reference client's sortObjectKeys: the keys sorted, at every depth.
sortObjectKeys(obj) ==
    LET ks == sort(keys(obj))
    IN [i \in 1..Len(ks) |->
           IF ks[i] \in ObjectKeys
           THEN <<ks[i], sortObjectKeys(get(obj, ks[i]))>>
           ELSE <<ks[i], get(obj, ks[i])>>]

\* The reference client's hashSoulDocument.
clientHashSoulDocument(doc) == sha512(JSONStringify(sortObjectKeys(doc)))

\* The object a client builds from a document: its properties in the order
\* of SoulDocumentSchema, birth and contact in the order of their schemas.
SchemaOrder ==
    <<"did", "name", "publicKey", "birth", "timestamp", "operator", "baseModel",
      "platform", "charterHash", "avatar", "description", "website", "contact", "email">>

RECURSIVE AsObject(_)
AsObject(doc) ==
    LET ks == SelectSeq(SchemaOrder, LAMBDA k : k \in DOMAIN doc)
    IN [i \in 1..Len(ks) |->
           IF ks[i] \in ObjectKeys
           THEN <<ks[i], AsObject(doc[ks[i]])>>
           ELSE <<ks[i], doc[ks[i]]>>]

\* The orders in which the entries of an object can be listed.
Orders(obj) == {[i \in 1..Len(obj) |-> obj[p[i]]] : p \in Permutations(1..Len(obj))}

\* The same document with its properties, and those of birth, in any order.
Shuffles(obj) ==
    UNION { { [i \in 1..Len(t) |->
                 IF t[i][1] = "birth" THEN <<"birth", b>> ELSE t[i]] :
              b \in Orders(get(obj, "birth")) } :
            t \in Orders(obj) }

(***************************************************************************)
(* Signatures and keys as the strings a request carries.  The bytes of a   *)
(* key and of a signature are idealised: one fixed byte string per private *)
(* key, one per private key and message, all distinct.  Decoding is        *)
(* computed on the characters as db.ts decodes them.  A call that throws   *)
(* is a result with threw = TRUE.                                          *)
(***************************************************************************)
KeyLength == 32
SignatureLength == 2 * KeyLength

KeyIndex(k) == IF k = "sk1" THEN 1 ELSE 2
\* The strings verifySignature is called on: a document hash, a challenge.
SignedMessages == {"docHash", "challenge"}
MessageIndex(m) == IF m = "docHash" THEN 1 ELSE 2

\* ed.getPublicKeyAsync(privateKey)
publicKeyBytes(k) == [i \in 1..KeyLength |-> (16 * KeyIndex(k) + i) % 256]
\* ed.signAsync(msgBytes, privateKey)
signatureBytes(k, m) ==
    [i \in 1..SignatureLength |-> (64 * KeyIndex(k) + 7 * MessageIndex(m) + i) % 256]

HexChars == <<"0", "1", "2", "3", "4", "5", "6", "7", "8", "9", "a", "b", "c", "d", "e", "f">>
UpperHexChars == <<"0", "1", "2", "3", "4", "5", "6", "7", "8", "9", "A", "B", "C", "D", "E", "F">>
BASE58_ALPHABET ==
    <<"1", "2", "3", "4", "5", "6", "7", "8", "9", "A", "B", "C", "D", "E", "F", "G",
      "H", "J", "K", "L", "M", "N", "P", "Q", "R", "S", "T", "U", "V", "W", "X", "Y",
      "Z", "a", "b", "c", "d", "e", "f", "g", "h", "i", "j", "k", "m", "n", "o", "p",
      "q", "r", "s", "t", "u", "v", "w", "x", "y", "z">>

\* String.prototype.indexOf for one character: zero-based, -1 when absent.
indexOf(alphabet, c) ==
    IF \E i \in 1..Len(alphabet) : alphabet[i] = c
    THEN (CHOOSE i \in 1..Len(alphabet) : alphabet[i] = c) - 1
    ELSE -1

\* The value of a hexadecimal digit of either case, -1 for any other character.
hexValue(c) ==
    IF indexOf(HexChars, c) >= 0 THEN indexOf(HexChars, c) ELSE indexOf(UpperHexChars, c)

RECURSIVE toHex(_)
\* Buffer.from(bytes).toString('hex')
toHex(bytes) ==
    IF bytes = << >> THEN << >>
    ELSE <<HexChars[(Head(bytes) \div 16) + 1], HexChars[(Head(bytes) % 16) + 1]>>
         \o toHex(Tail(bytes))

\* The same digits in upper case.
upperHex(text) == [i \in 1..Len(text) |-> UpperHexChars[hexValue(text[i]) + 1]]

\* /^[0-9a-fA-F]+$/.test(input)
IsHex(input) == Len(input) > 0 /\ \A i \in 1..Len(input) : hexValue(input[i]) >= 0

\* Buffer.from(input, 'hex') on hexadecimal digits: one byte per pair, a
\* last digit without a partner is dropped.
fromHex(input) ==
    [i \in 1..(Len(input) \div 2) |->
        16 * hexValue(input[2 * i - 1]) + hexValue(input[2 * i])]

Returned(bytes) == [threw |-> FALSE, bytes |-> bytes]
Thrown == [threw |-> TRUE, bytes |-> << >>]

RECURSIVE base58Push(_, _)
\* while (carry > 0) { bytes.push(carry & 0xff); carry >>= 8 }
base58Push(bytes, carry) ==
    IF carry > 0 THEN base58Push(Append(bytes, carry % 256), carry \div 256) ELSE bytes

RECURSIVE base58Carry(_, _, _)
\* for (i ...) { carry += bytes[i] * 58; bytes[i] = carry & 0xff; carry >>= 8 }
base58Carry(bytes, i, carry) ==
    IF i > Len(bytes) THEN base58Push(bytes, carry)
    ELSE LET c == carry + bytes[i] * 58
         IN base58Carry([bytes EXCEPT ![i] = c % 256], i + 1, c \div 256)

RECURSIVE base58Digits(_, _, _)
\* The first loop of base58Decode from the i-th character on.
base58Digits(str, i, bytes) ==
    IF i > Len(str) THEN Returned(bytes)
    ELSE LET value == indexOf(BASE58_ALPHABET, str[i])
         IN IF value = -1 THEN Thrown
            ELSE base58Digits(str, i + 1, base58Carry(bytes, 1, value))

RECURSIVE LeadingOnes(_)
LeadingOnes(str) ==
    IF str = << >> \/ Head(str) # "1" THEN 0 ELSE 1 + LeadingOnes(Tail(str))

reverse(bytes) == [i \in 1..Len(bytes) |-> bytes[Len(bytes) + 1 - i]]

base58Decode(str) ==
    LET digits == base58Digits(str, 1, << >>)
    IN IF digits.threw THEN Thrown
       ELSE Returned(reverse(digits.bytes \o [i \in 1..LeadingOnes(str) |-> 0]))

decodeBase58OrHex(input) ==
    LET noZ == IF startsWith(input, <<"z">>) THEN Tail(input) ELSE input
        no0x == IF startsWith(noZ, <<"0", "x">>) THEN Tail(Tail(noZ)) ELSE noZ
    IN IF IsHex(no0x) THEN Returned(fromHex(no0x)) ELSE base58Decode(no0x)

\* What the Ed25519 library does with a signature or a key of the wrong
\* length depends on its version: it throws, or it answers false.
LibraryBehaviours == {"throws", "returnsFalse"}

Resolved(value) == [threw |-> FALSE, value |-> value]
Rejected == [threw |-> TRUE, value |-> FALSE]

\* ed.verifyAsync(sigBytes, msgBytes, pubKeyBytes)
verifyAsync(sigBytes, message, pubKeyBytes, library) ==
    IF Len(sigBytes) # SignatureLength \/ Len(pubKeyBytes) # KeyLength
    THEN IF library = "throws" THEN Rejected ELSE Resolved(FALSE)
    ELSE Resolved(\E k \in PrivateKeys :
                      /\ pubKeyBytes = publicKeyBytes(k)
                      /\ sigBytes = signatureBytes(k, message))

\* The body of verifySignature's try block.
verifySignatureTry(message, signature, publicKey, library) ==
    LET sigBytes == decodeBase58OrHex(signature)
        pubKeyBytes == decodeBase58OrHex(publicKey)
    IN IF sigBytes.threw \/ pubKeyBytes.threw THEN Rejected
       ELSE verifyAsync(sigBytes.bytes, message, pubKeyBytes.bytes, library)

\* verifySignature without its catch block.
verifySignatureNoCatch(message, signature, publicKey, library) ==
    verifySignatureTry(message, signature, publicKey, library)

\* db.ts verifySignature on strings: try { ... } catch { return false }
verifySignatureText(message, signature, publicKey, library) ==
    LET attempt == verifySignatureTry(message, signature, publicKey, library)
    IN IF attempt.threw THEN Resolved(FALSE) ELSE attempt

\* The spellings of a hexadecimal string that decode to the same bytes: with
\* or without the prefixes z and 0x, in either case, with or without one more
\* digit at the end.
Encodings(hex) ==
    { prefix \o digits \o extra :
        prefix \in {<< >>, <<"z">>, <<"0", "x">>, <<"z", "0", "x">>},
        digits \in {hex, upperHex(hex)},
        extra \in {<< >>, <<"a">>} }

\* Strings that are no spelling of it: too short, too long, empty, a bare
\* prefix, base58 digits, characters of neither alphabet.
Malformed(hex) ==
    { SubSeq(hex, 1, Len(hex) - 2), hex \o <<"0", "0">>, << >>, <<"0", "x">>,
      <<"1", "1">>, <<"2", "g">>, <<"O">>, <<"x", "0">>, <<"g">> \o hex }

(***************************************************************************)
(* The clock.  new Date().toISOString() is "<date>T<time>Z"; SQLite's      *)
(* datetime('now') is "<date> <time>".  A time is kept as minutes since    *)
(* the start of day 0 and rendered as <<date, separator, time of day>>,    *)
(* which SQLite compares as text, character by character.                  *)
(***************************************************************************)
MinutesPerDay == 24 * 60
FiveMinutes == 5

toISOString(t) == <<t \div MinutesPerDay, "T", t % MinutesPerDay>>
datetimeNow(t) == <<t \div MinutesPerDay, " ", t % MinutesPerDay>>

CharCode(c) == IF c = " " THEN 32 ELSE 84

\* Text comparison of two rendered times.
TextLess(x, y) ==
    \/ x[1] < y[1]
    \/ x[1] = y[1] /\ CharCode(x[2]) < CharCode(y[2])
    \/ x[1] = y[1] /\ x[2] = y[2] /\ x[3] < y[3]

\* One minute passes.
Tick ==
    /\ now < MaxMinute
    /\ now' = now + 1
    /\ UNCHANGED <<souls, challenges, nextChallenge, pc, req, resp>>

\* More than five minutes pass at once.
WindowPasses ==
    /\ now + FiveMinutes + 1 <= MaxMinute
    /\ now' = now + FiveMinutes + 1
    /\ UNCHANGED <<souls, challenges, nextChallenge, pc, req, resp>>

\* Time passes until the next midnight.
Midnight ==
    /\ now \div MinutesPerDay < MaxDay
    /\ now' = ((now \div MinutesPerDay) + 1) * MinutesPerDay
    /\ UNCHANGED <<souls, challenges, nextChallenge, pc, req, resp>>

(***************************************************************************)
(* RegistryDB: the souls table.                                            *)
(***************************************************************************)
RowIds == 1..Len(souls)

\* SELECT * FROM souls WHERE did = ?  (first row; 0 when there is none)
getSoulByDid(did) ==
    LET hit == {i \in RowIds : souls[i].did = did}
    IN IF hit = {} THEN 0 ELSE CHOOSE i \in hit : \A j \in hit : i <= j

\* SELECT * FROM souls WHERE LOWER(name) = LOWER(?)
getSoulByName(name) ==
    LET hit == {i \in RowIds : toLowerCase(souls[i].name) = toLowerCase(name)}
    IN IF hit = {} THEN 0 ELSE CHOOSE i \in hit : \A j \in hit : i <= j

\* A schema whose name column lacks COLLATE NOCASE.
UniqueViolatedCaseSensitive(did, name) ==
    \E i \in RowIds : souls[i].did = did \/ souls[i].name = name

\* did TEXT UNIQUE NOT NULL, name TEXT UNIQUE NOT NULL COLLATE NOCASE:
\* the INSERT of a row with this did and name is refused (db.run throws).
UniqueViolated(did, name) ==
    \E i \in RowIds :
        \/ souls[i].did = did
        \/ toLowerCase(souls[i].name) = toLowerCase(name)

\* The optional fields of a birth certificate, each in a column of its own.
OptionalBirthFields == {"baseModel", "platform", "charterHash"}

\* A birth certificate through its columns: createSoul writes
\* `soul.birth.baseModel || null` (and so for platform and charterHash),
\* rowToSoul reads `row.birth_base_model || undefined`, so an optional field
\* that is the empty string comes back absent.
birthColumns(birth) ==
    [k \in {f \in DOMAIN birth : f \notin OptionalBirthFields \/ birth[f] # ""} |->
        birth[k]]

\* The row with this id of a soul document registered at time t.
Row(id, doc, t) ==
    [ id                |-> id,
      did               |-> doc.did,
      name              |-> doc.name,
      publicKey         |-> doc.publicKey,
      birth             |-> birthColumns(doc.birth),
      contact           |-> IF "contact" \in DOMAIN doc THEN Some(doc.contact) ELSE None,
      capabilities      |-> None,
      riskLevel         |-> None,
      status            |-> "active",
      statusReason      |-> None,
      statusChangedAt   |-> None,
      registeredAt      |-> t,
      lastVerifiedAt    |-> None,
      verificationCount |-> 0,
      version           |-> 1 ]

\* createSoul: the INSERT, which the UNIQUE constraints may refuse.
createSoul(doc, t) == Append(souls, Row(Len(souls) + 1, doc, t))

\* The UPDATE without its WHERE clause.
incrementVerificationCountAll(did, t) ==
    [i \in RowIds |->
        [souls[i] EXCEPT !.verificationCount = @ + 1, !.lastVerifiedAt = Some(t)]]

\* UPDATE souls SET verification_count = verification_count + 1,
\* last_verified_at = ? WHERE did = ?
incrementVerificationCount(did, t) ==
    [i \in RowIds |->
        IF souls[i].did = did
        THEN [souls[i] EXCEPT !.verificationCount = @ + 1, !.lastVerifiedAt = Some(t)]
        ELSE souls[i]]

(***************************************************************************)
(* RegistryDB: the challenges table, keyed by challengeId.                 *)
(***************************************************************************)
ChallengeIds == DOMAIN challenges

\* UPDATE challenges SET status = ? WHERE id = ?
updateChallengeStatus(id, status) ==
    [c \in ChallengeIds |->
        IF c = id THEN [challenges[c] EXCEPT !.status = status] ELSE challenges[c]]

\* A DELETE without the condition on status.
SweptAnyStatus(t) ==
    {c \in ChallengeIds :
        TextLess(toISOString(challenges[c].expiresAt), datetimeNow(t))}

\* The rows DELETE FROM challenges WHERE expires_at < datetime('now')
\* AND status = 'pending' removes.
Swept(t) ==
    {c \in ChallengeIds :
        /\ TextLess(toISOString(challenges[c].expiresAt), datetimeNow(t))
        /\ challenges[c].status = "pending"}

cleanExpiredChallenges(t) == [c \in ChallengeIds \ Swept(t) |-> challenges[c]]

\* The table with only the challenge issued with this id for did at time t.
\* A challenge row whose window is twice the handler's.
createChallengeRowLongWindow(id, did, t) ==
    id :> [ did       |-> did,
            nonce     |-> <<"nonce", id>>,
            issuedAt  |-> t,
            expiresAt |-> t + 2 * FiveMinutes,
            status    |-> "pending" ]

createChallengeRow(id, did, t) ==
    id :> [ did       |-> did,
            nonce     |-> <<"nonce", id>>,
            issuedAt  |-> t,
            expiresAt |-> t + FiveMinutes,
            status    |-> "pending" ]

\* generateNonce(): 32 random bytes, a fresh value with every challenge.
generateNonce(id) == <<"nonce", id>>

\* The handlers' "Resolve soul" block.
resolveSoul(didOrName) ==
    IF startsWith(didOrName, DidPrefix)
    THEN getSoulByDid(didOrName)
    ELSE getSoulByName(didOrName)

(***************************************************************************)
(* Requests.                                                               *)
(***************************************************************************)
Idle == [kind |-> "none"]
NoResp == [http |-> 0, code |-> "NONE"]

Reply(r, http, code) == resp' = [resp EXCEPT ![r] = [http |-> http, code |-> code]]

\* Requests arrive in the order of their numbers.
MayStart(r) == pc[r] = "idle" /\ \A q \in Reqs : q < r => pc[q] # "idle"

(***************************************************************************)
(* GET /v1/souls/:didOrName                                                *)
(***************************************************************************)
\* rowToSoul: the SoulRecord of a row; the row's id and version become
\* _registryId and _version.
rowToSoul(row) ==
    [k \in (DOMAIN row \ {"id", "version"}) \cup {"_registryId", "_version"} |->
        CASE k = "_registryId" -> row.id
          [] k = "_version" -> row.version
          [] OTHER -> row[k]]

\* const { _registryId, _version, ...publicSoul } = soul
publicSoul(soul) == [k \in DOMAIN soul \ {"_registryId", "_version"} |-> soul[k]]

\* The handler has no await and writes nothing: its response is a function
\* of the table.
Resolve(didOrName) ==
    LET soul == resolveSoul(didOrName)
    IN IF soul = 0
       THEN [http |-> 404, code |-> "NOT_FOUND"]
       ELSE [http |-> 200, code |-> "OK", body |-> publicSoul(rowToSoul(souls[soul]))]

(***************************************************************************)
(* POST /v1/souls/register                                                 *)
(***************************************************************************)
BirthTimestamp == "2026-02-01T00:00:00Z"

SoulDocument(did, name, pk) ==
    [ did       |-> did,
      name      |-> name,
      publicKey |-> pk,
      birth     |-> [timestamp |-> BirthTimestamp, operator |-> "Adam"] ]

\* A document whose birth certificate names a base model.
SoulDocumentBorn(did, name, pk, baseModel) ==
    [ did       |-> did,
      name      |-> name,
      publicKey |-> pk,
      birth     |-> [timestamp |-> BirthTimestamp, operator |-> "Adam",
                     baseModel |-> baseModel] ]

\* The documents clients submit: names that differ by case only, declared
\* dids that match the name exactly, by case only, or not at all, a did the
\* schema refuses, two keys, and birth certificates with a base model and
\* with an empty one.
SoulDocuments ==
    { SoulDocument(DidPrefix \o <<"a">>, <<"a">>, "pk1"),
      SoulDocument(DidPrefix \o <<"A">>, <<"A">>, "pk1"),
      SoulDocument(DidPrefix \o <<"a">>, <<"A">>, "pk2"),
      SoulDocument(UpperDidPrefix \o <<"a">>, <<"a">>, "pk2"),
      SoulDocument(DidPrefix \o <<"b">>, <<"b">>, "pk1"),
      SoulDocument(DidPrefix \o <<"b">>, <<"b">>, "pk2"),
      SoulDocument(DidPrefix \o <<"b">>, <<"a">>, "pk1"),
      SoulDocument(DidPrefix, <<"a">>, "pk1"),
      SoulDocumentBorn(DidPrefix \o <<"b">>, <<"b">>, "pk1", "model-1"),
      SoulDocumentBorn(DidPrefix \o <<"b">>, <<"b">>, "pk1", "") }

\* The documents a client may have signed instead of the one it submits:
\* one that differs inside birth, one that differs at the top level.
Tampered(doc, how) ==
    CASE how = "same"  -> doc
      [] how = "birth" -> [doc EXCEPT !.birth.operator = "Eve"]
      [] how = "top"   -> [k \in DOMAIN doc \cup {"description"} |->
                              IF k = "description" THEN "tampered" ELSE doc[k]]
Tamperings == {"same", "birth", "top"}

KeyOwner(pk) == CHOOSE k \in PrivateKeys : PublicKeyOf(k) = pk

\* A register request: the body, and (not part of the body) the document
\* whose hash the client signed.
RegisterInput(doc, k, how) ==
    [ body      |-> [soulDocument |-> doc,
                     signature    |-> Sign(k, hashSoulDocument(Tampered(doc, how)))],
      signedDoc |-> Tampered(doc, how) ]

RegisterInputs ==
    {RegisterInput(doc, KeyOwner(doc.publicKey), how) :
        doc \in SoulDocuments, how \in Tamperings}
    \cup {RegisterInput(doc, k, "same") : doc \in SoulDocuments, k \in PrivateKeys}

\* RegisterRequestSchema.safeParse(body).success
RegisterRequestSchema(body) ==
    /\ DidSchema(body.soulDocument.did)
    /\ NameRegex(body.soulDocument.name)

\* Lines 90-91: the declared did against the did derived from the name.
DidMatchesName(doc) == toLowerCase(doc.did) = DidPrefix \o toLowerCase(doc.name)

\* Up to the await: parse, derived-DID check, uniqueness check.
RegisterStart(r, in) ==
    /\ MayStart(r)
    /\ req' = [req EXCEPT ![r] =
                  [kind |-> "register", body |-> in.body, signedDoc |-> in.signedDoc]]
    /\ LET body == in.body IN
       IF ~RegisterRequestSchema(body)
       THEN pc' = [pc EXCEPT ![r] = "done"] /\ Reply(r, 400, "INVALID_REQUEST")
       ELSE IF ~DidMatchesName(body.soulDocument)
       THEN pc' = [pc EXCEPT ![r] = "done"] /\ Reply(r, 400, "DID_MISMATCH")
       ELSE IF getSoulByName(body.soulDocument.name) # 0
       THEN pc' = [pc EXCEPT ![r] = "done"] /\ Reply(r, 409, "NAME_TAKEN")
       ELSE pc' = [pc EXCEPT ![r] = "await"] /\ UNCHANGED resp
    /\ UNCHANGED <<now, souls, challenges, nextChallenge>>

\* A gate that checks the signature against the key that made it, not
\* against the key of the document.
RegisterSignatureValidAnyKey(body) ==
    /\ body.signature.signer \in PrivateKeys
    /\ body.signature.msg = hashSoulDocument(body.soulDocument)

\* Line 109: the signature gate.
RegisterSignatureValid(body) ==
    verifySignature(hashSoulDocument(body.soulDocument), body.signature,
                    body.soulDocument.publicKey)

\* A handler that inserts the row before it looks at the signature.
RegisterFinishInsertFirst(r) ==
    /\ pc[r] = "await"
    /\ req[r].kind = "register"
    /\ pc' = [pc EXCEPT ![r] = "done"]
    /\ LET doc == req[r].body.soulDocument
       IN IF UniqueViolated(doc.did, doc.name)
          THEN Reply(r, 500, "INTERNAL_ERROR") /\ UNCHANGED souls
          ELSE /\ souls' = createSoul(doc, now)
               /\ IF ~RegisterSignatureValid(req[r].body)
                  THEN Reply(r, 401, "INVALID_SIGNATURE")
                  ELSE resp' = [resp EXCEPT ![r] =
                          [http |-> 201, code |-> "CREATED", did |-> doc.did,
                           registeredAt |-> now]]
    /\ UNCHANGED <<now, challenges, nextChallenge, req>>

\* After the await: signature gate, then createSoul; a refused INSERT throws
\* and the handler's catch answers 500.
RegisterFinish(r) ==
    /\ pc[r] = "await"
    /\ req[r].kind = "register"
    /\ pc' = [pc EXCEPT ![r] = "done"]
    /\ LET doc == req[r].body.soulDocument
       IN IF ~RegisterSignatureValid(req[r].body)
          THEN Reply(r, 401, "INVALID_SIGNATURE") /\ UNCHANGED souls
          ELSE IF UniqueViolated(doc.did, doc.name)
          THEN Reply(r, 500, "INTERNAL_ERROR") /\ UNCHANGED souls
          ELSE /\ souls' = createSoul(doc, now)
               /\ resp' = [resp EXCEPT ![r] =
                      [http |-> 201, code |-> "CREATED", did |-> doc.did,
                       registeredAt |-> now]]
    /\ UNCHANGED <<now, challenges, nextChallenge, req>>

(***************************************************************************)
(* The registration system: an empty registry and MaxReqs register         *)
(* requests, in any interleaving.                                          *)
(***************************************************************************)
InitRequests(n) ==
    /\ pc = [r \in 1..n |-> "idle"]
    /\ req = [r \in 1..n |-> Idle]
    /\ resp = [r \in 1..n |-> NoResp]

InitRegister ==
    /\ now = 0
    /\ souls = << >>
    /\ challenges = << >>
    /\ nextChallenge = 1
    /\ InitRequests(MaxRegisterRequests)

NextRegister ==
    \/ \E r \in Reqs, in \in RegisterInputs : RegisterStart(r, in)
    \/ \E r \in Reqs : RegisterFinish(r)

SpecRegister == InitRegister /\ [][NextRegister]_vars

(***************************************************************************)
(* POST /v1/souls/:didOrName/challenge                                     *)
(***************************************************************************)
DidA == DidPrefix \o <<"a">>
DidB == DidPrefix \o <<"b">>

\* What clients put for :didOrName: a did, a name in another letter case,
\* a name that is not registered.
Subjects == {DidA, <<"B">>, <<"c">>}

\* The handler has no await: it runs in one step.
IssueChallenge(r, didOrName) ==
    /\ MayStart(r)
    /\ pc' = [pc EXCEPT ![r] = "done"]
    /\ req' = [req EXCEPT ![r] = [kind |-> "challenge", didOrName |-> didOrName]]
    /\ LET soul == resolveSoul(didOrName)
           id == nextChallenge
       IN IF soul = 0
          THEN /\ Reply(r, 404, "NOT_FOUND")
               /\ UNCHANGED <<challenges, nextChallenge>>
          ELSE /\ challenges' = createChallengeRow(id, souls[soul].did, now) @@ challenges
               /\ nextChallenge' = id + 1
               /\ resp' = [resp EXCEPT ![r] =
                      [http |-> 200, code |-> "OK", challengeId |-> id]]
    /\ UNCHANGED <<now, souls>>

(***************************************************************************)
(* POST /v1/souls/:didOrName/verify                                        *)
(***************************************************************************)
\* VerifyRequestSchema.safeParse(body).success
VerifyRequestSchema(body) == body.signature # EmptyString

\* The bodies clients send: the id of a challenge, or an id that was never
\* issued, with a signature over that challenge's nonce by either key, or
\* with an empty signature.
VerifyBodies ==
    UNION { { [challengeId |-> c, signature |-> sig] :
                sig \in {Sign(k, generateNonce(c)) : k \in PrivateKeys} \cup {EmptyString} } :
            c \in ChallengeIds \cup {nextChallenge} }

\* An expiry test that allows a grace period of another window.
ChallengeExpiredWithGrace(challenge, t) == challenge.expiresAt < t - FiveMinutes

\* Line 393: new Date(challenge.expiresAt) < new Date()
ChallengeExpired(challenge, t) == challenge.expiresAt < t

\* A subject test that compares only the method prefix of the two dids.
SubjectMismatchPrefixOnly(challenge, soul) ==
    SubSeq(challenge.did, 1, Len(DidPrefix)) # SubSeq(soul.did, 1, Len(DidPrefix))

\* Line 425: challenge.did !== soul.did
SubjectMismatch(challenge, soul) == challenge.did # soul.did

\* Up to the await: parse, look the challenge up, expiry, single use,
\* resolve the soul, subject match.  The handler keeps the challenge and the
\* soul it read in locals.
VerifyStart(r, didOrName, body) ==
    /\ MayStart(r)
    /\ LET id == body.challengeId
           soul == resolveSoul(didOrName)
           Stop(http, code) ==
               /\ pc' = [pc EXCEPT ![r] = "done"]
               /\ req' = [req EXCEPT ![r] =
                      [kind |-> "verify", didOrName |-> didOrName, body |-> body]]
               /\ Reply(r, http, code)
       IN IF ~VerifyRequestSchema(body)
          THEN Stop(400, "INVALID_REQUEST") /\ UNCHANGED challenges
          ELSE IF id \notin ChallengeIds
          THEN Stop(404, "CHALLENGE_NOT_FOUND") /\ UNCHANGED challenges
          ELSE IF ChallengeExpired(challenges[id], now)
          THEN /\ Stop(410, "CHALLENGE_EXPIRED")
               /\ challenges' = updateChallengeStatus(id, "expired")
          ELSE IF challenges[id].status # "pending"
          THEN Stop(409, "CHALLENGE_USED") /\ UNCHANGED challenges
          ELSE IF soul = 0
          THEN Stop(404, "NOT_FOUND") /\ UNCHANGED challenges
          ELSE IF SubjectMismatch(challenges[id], souls[soul])
          THEN Stop(400, "DID_MISMATCH") /\ UNCHANGED challenges
          ELSE /\ pc' = [pc EXCEPT ![r] = "await"]
               /\ req' = [req EXCEPT ![r] =
                      [kind |-> "verify", didOrName |-> didOrName, body |-> body,
                       challenge |-> challenges[id],
                       soul |-> [did |-> souls[soul].did,
                                 publicKey |-> souls[soul].publicKey]]]
               /\ UNCHANGED <<resp, challenges>>
    /\ UNCHANGED <<now, souls, nextChallenge>>

\* A handler that uses the challenge up on whatever attempt is made on it.
VerifyFinishConsume(r) ==
    /\ pc[r] = "await"
    /\ req[r].kind = "verify"
    /\ pc' = [pc EXCEPT ![r] = "done"]
    /\ challenges' = updateChallengeStatus(req[r].body.challengeId, "completed")
    /\ IF ~verifySignature(req[r].challenge.nonce, req[r].body.signature,
                           req[r].soul.publicKey)
       THEN Reply(r, 401, "INVALID_SIGNATURE") /\ UNCHANGED souls
       ELSE /\ souls' = incrementVerificationCount(req[r].soul.did, now)
            /\ resp' = [resp EXCEPT ![r] =
                   [http |-> 200, code |-> "VERIFIED", did |-> req[r].soul.did]]
    /\ UNCHANGED <<now, nextChallenge, req>>

\* After the await: signature gate, then the challenge is marked completed
\* and the soul's verification count is raised.
VerifyFinish(r) ==
    /\ pc[r] = "await"
    /\ req[r].kind = "verify"
    /\ pc' = [pc EXCEPT ![r] = "done"]
    /\ IF ~verifySignature(req[r].challenge.nonce, req[r].body.signature,
                           req[r].soul.publicKey)
       THEN Reply(r, 401, "INVALID_SIGNATURE") /\ UNCHANGED <<challenges, souls>>
       ELSE /\ challenges' = updateChallengeStatus(req[r].body.challengeId, "completed")
            /\ souls' = incrementVerificationCount(req[r].soul.did, now)
            /\ resp' = [resp EXCEPT ![r] =
                   [http |-> 200, code |-> "VERIFIED", did |-> req[r].soul.did]]
    /\ UNCHANGED <<now, nextChallenge, req>>

\* The setInterval callback of main(): db.cleanExpiredChallenges().
Sweep ==
    /\ challenges' = cleanExpiredChallenges(now)
    /\ UNCHANGED <<now, souls, nextChallenge, pc, req, resp>>

(***************************************************************************)
(* The challenge system: a registry that holds two identities and one      *)
(* challenge issued at time 0 for the first, and MaxRequests challenge and *)
(* verify requests, the sweep and the clock in any interleaving.           *)
(***************************************************************************)
TwoSouls ==
    << Row(1, SoulDocument(DidA, <<"a">>, "pk1"), 0),
       Row(2, SoulDocument(DidB, <<"b">>, "pk2"), 0) >>

InitChallenge ==
    /\ now = 0
    /\ souls = TwoSouls
    /\ challenges = createChallengeRow(1, DidA, 0)
    /\ nextChallenge = 2
    /\ InitRequests(MaxRequests)

NextChallenge ==
    \/ \E r \in Reqs, s \in Subjects : IssueChallenge(r, s)
    \/ \E r \in Reqs, s \in Subjects, body \in VerifyBodies : VerifyStart(r, s, body)
    \/ \E r \in Reqs : VerifyFinish(r)
    \/ Sweep
    \/ Tick
    \/ Midnight

SpecChallenge == InitChallenge /\ [][NextChallenge]_vars

(***************************************************************************)
(* PUT /v1/souls/:didOrName/contact and .../capabilities                   *)
(***************************************************************************)
\* The template literal `${tag}:${did}:${last}`.
Message(tag, did, last) == <<tag, did, last>>

\* A window that is one minute too wide.
TimestampTooOldOffByOne(timestamp, t) == timestamp < t - FiveMinutes - 1

\* Lines 210-211 and 284-285: timestampDate < fiveMinutesAgo.
TimestampTooOld(timestamp, t) == timestamp < t - FiveMinutes

\* An update that also writes the contact into the birth certificate.
updateSoulContactAndBirth(did, contact) ==
    [i \in RowIds |->
        IF souls[i].did = did
        THEN [souls[i] EXCEPT !.contact = Some(contact), !.version = @ + 1,
                              !.birth.operator = contact.email]
        ELSE souls[i]]

\* UPDATE souls SET contact_json = ?, version = version + 1 WHERE did = ?
updateSoulContact(did, contact) ==
    [i \in RowIds |->
        IF souls[i].did = did
        THEN [souls[i] EXCEPT !.contact = Some(contact), !.version = @ + 1]
        ELSE souls[i]]

\* An update that leaves the version column alone.
updateSoulCapabilitiesSameVersion(did, capabilities, riskLevel) ==
    [i \in RowIds |->
        IF souls[i].did = did
        THEN [souls[i] EXCEPT !.capabilities = Some(capabilities),
                              !.riskLevel = riskLevel]
        ELSE souls[i]]

\* UPDATE souls SET capabilities_json = ?, risk_level = ?,
\* version = version + 1 WHERE did = ?
updateSoulCapabilities(did, capabilities, riskLevel) ==
    [i \in RowIds |->
        IF souls[i].did = did
        THEN [souls[i] EXCEPT !.capabilities = Some(capabilities),
                              !.riskLevel = riskLevel, !.version = @ + 1]
        ELSE souls[i]]

\* A store that drops the row of an identity that is revoked.
updateSoulStatusDropRevoked(did, status, reason, t) ==
    IF status = "revoked"
    THEN SelectSeq(souls, LAMBDA row : row.did # did)
    ELSE [i \in RowIds |->
            IF souls[i].did = did
            THEN [souls[i] EXCEPT !.status = status, !.statusReason = Some(reason),
                                  !.statusChangedAt = Some(t), !.version = @ + 1]
            ELSE souls[i]]

\* UPDATE souls SET status = ?, status_reason = ?, status_changed_at = ?,
\* version = version + 1 WHERE did = ?
updateSoulStatus(did, status, reason, t) ==
    [i \in RowIds |->
        IF souls[i].did = did
        THEN [souls[i] EXCEPT !.status = status, !.statusReason = Some(reason),
                              !.statusChangedAt = Some(t), !.version = @ + 1]
        ELSE souls[i]]

\* z.string().email(): of the strings clients send here, the ones it accepts.
IsEmail(text) == text \in {"a@x.org", "b@x.org"}

\* A contact schema that accepts a single address.
ContactSchemaOneAddress(contact) ==
    "email" \in DOMAIN contact => contact.email = "a@x.org"

\* ContactSchema.safeParse(contact).success
ContactSchema(contact) ==
    "email" \in DOMAIN contact => IsEmail(contact.email)

\* ContactUpdateSchema.safeParse(body).success
ContactUpdateSchema(body) ==
    /\ ContactSchema(body.payload)
    /\ body.signature # EmptyString

\* CapabilitiesUpdateSchema.safeParse(body).success: the schema is imported
\* from types.js; it is taken to ask of signature and timestamp what
\* ContactUpdateSchema asks.
CapabilitiesUpdateSchema(body) == body.signature # EmptyString

UpdateSchema(kind, body) ==
    IF kind = "contact" THEN ContactUpdateSchema(body) ELSE CapabilitiesUpdateSchema(body)

\* The timestamps clients send: the start of the run, a minute later, and
\* the last minute of the run.
Timestamps == {0, 1, MaxMinute}

\* The bodies of the updates of one kind for the first identity: signed by
\* its key for each timestamp, a second payload, a signature by the other
\* key, a signature made for another timestamp, an empty signature.
UpdateBodies(tag, payload1, payload2) ==
    {[payload |-> payload1, timestamp |-> ts,
      signature |-> Sign("sk1", Message(tag, DidA, ts))] : ts \in Timestamps}
    \cup
    { [payload |-> payload2, timestamp |-> 0,
       signature |-> Sign("sk1", Message(tag, DidA, 0))],
      [payload |-> payload1, timestamp |-> 0,
       signature |-> Sign("sk2", Message(tag, DidA, 0))],
      [payload |-> payload1, timestamp |-> 1,
       signature |-> Sign("sk1", Message(tag, DidA, 0))],
      [payload |-> payload1, timestamp |-> 0, signature |-> EmptyString] }

\* The same, and a contact whose email is no address, signed like the
\* others.
ContactBodies ==
    UpdateBodies("contact-update", [email |-> "a@x.org"], [email |-> "b@x.org"])
    \cup { [payload |-> [email |-> "nobody"], timestamp |-> 0,
            signature |-> Sign("sk1", Message("contact-update", DidA, 0))] }

CapabilitiesBodies ==
    UpdateBodies("capabilities-update",
                 [capabilities |-> <<"chat">>, riskLevel |-> None],
                 [capabilities |-> <<"code">>, riskLevel |-> Some("high")])

\* The requests: any body addressed to the first identity, and one
\* addressed to a name that is not registered.
UpdateRequests(bodies) ==
    {[didOrName |-> DidA, body |-> b] : b \in bodies}
    \cup {[didOrName |-> <<"c">>, body |-> b] :
             b \in {x \in bodies : x.timestamp = MaxMinute}}

\* Up to the await, for either kind: parse, resolve, freshness.  The handler
\* keeps the soul it read in a local.  (Of a response the model keeps the
\* status, the code and the did; updatedAt, the time of the freshness check,
\* is dropped.)
UpdateStart(r, kind, didOrName, body) ==
    /\ MayStart(r)
    /\ LET soul == resolveSoul(didOrName)
           Stop(http, code) ==
               /\ pc' = [pc EXCEPT ![r] = "done"]
               /\ req' = [req EXCEPT ![r] =
                      [kind |-> kind, didOrName |-> didOrName, body |-> body]]
               /\ Reply(r, http, code)
       IN IF ~UpdateSchema(kind, body)
          THEN Stop(400, "INVALID_REQUEST")
          ELSE IF soul = 0
          THEN Stop(404, "NOT_FOUND")
          ELSE IF TimestampTooOld(body.timestamp, now)
          THEN Stop(400, "TIMESTAMP_EXPIRED")
          ELSE /\ pc' = [pc EXCEPT ![r] = "await"]
               /\ req' = [req EXCEPT ![r] =
                      [kind |-> kind, didOrName |-> didOrName, body |-> body,
                       soul |-> [did |-> souls[soul].did,
                                 publicKey |-> souls[soul].publicKey]]]
               /\ UNCHANGED resp
    /\ UNCHANGED <<now, souls, challenges, nextChallenge>>

ContactStart(r, didOrName, body) == UpdateStart(r, "contact", didOrName, body)

CapabilitiesStart(r, didOrName, body) == UpdateStart(r, "capabilities", didOrName, body)

\* A handler that verifies the signature under the key of whoever signed.
ContactFinishAnyKey(r) ==
    /\ pc[r] = "await"
    /\ req[r].kind = "contact"
    /\ pc' = [pc EXCEPT ![r] = "done"]
    /\ IF ~verifySignature(Message("contact-update", req[r].soul.did, req[r].body.timestamp),
                           req[r].body.signature,
                           PublicKeyOf(req[r].body.signature.signer))
       THEN Reply(r, 401, "INVALID_SIGNATURE") /\ UNCHANGED souls
       ELSE /\ souls' = updateSoulContact(req[r].soul.did, req[r].body.payload)
            /\ resp' = [resp EXCEPT ![r] =
                   [http |-> 200, code |-> "OK", did |-> req[r].soul.did]]
    /\ UNCHANGED <<now, challenges, nextChallenge, req>>

\* After the await: signature gate over "contact-update:{did}:{timestamp}",
\* then the contact is replaced.
ContactFinish(r) ==
    /\ pc[r] = "await"
    /\ req[r].kind = "contact"
    /\ pc' = [pc EXCEPT ![r] = "done"]
    /\ IF ~verifySignature(Message("contact-update", req[r].soul.did, req[r].body.timestamp),
                           req[r].body.signature, req[r].soul.publicKey)
       THEN Reply(r, 401, "INVALID_SIGNATURE") /\ UNCHANGED souls
       ELSE /\ souls' = updateSoulContact(req[r].soul.did, req[r].body.payload)
            /\ resp' = [resp EXCEPT ![r] =
                   [http |-> 200, code |-> "OK", did |-> req[r].soul.did]]
    /\ UNCHANGED <<now, challenges, nextChallenge, req>>

\* After the await: signature gate over
\* "capabilities-update:{did}:{timestamp}", then capabilities and risk
\* level are replaced.
CapabilitiesFinish(r) ==
    /\ pc[r] = "await"
    /\ req[r].kind = "capabilities"
    /\ pc' = [pc EXCEPT ![r] = "done"]
    /\ IF ~verifySignature(Message("capabilities-update", req[r].soul.did,
                                   req[r].body.timestamp),
                           req[r].body.signature, req[r].soul.publicKey)
       THEN Reply(r, 401, "INVALID_SIGNATURE") /\ UNCHANGED souls
       ELSE /\ souls' = updateSoulCapabilities(req[r].soul.did,
                            req[r].body.payload.capabilities,
                            req[r].body.payload.riskLevel)
            /\ resp' = [resp EXCEPT ![r] =
                   [http |-> 200, code |-> "OK", did |-> req[r].soul.did]]
    /\ UNCHANGED <<now, challenges, nextChallenge, req>>

(***************************************************************************)
(* POST /v1/souls/:didOrName/suspend, /revoke, /reactivate: updateStatus   *)
(***************************************************************************)
Statuses == {"active", "suspended", "revoked"}

\* StatusUpdateSchema.safeParse(body).success
StatusUpdateSchema(body) == body.signature # EmptyString

\* The bodies: a reason and a signature by either key over
\* "{newStatus}:{did}:{reason}".
StatusBodies(newStatus) ==
    {[reason |-> "why", signature |-> Sign(k, Message(newStatus, DidA, "why"))] :
        k \in PrivateKeys}

\* The requests: any body addressed to the first identity, one with an
\* empty signature, and one addressed to a name that is not registered.
StatusRequests ==
    UNION { {[newStatus |-> st, didOrName |-> DidA, body |-> b] :
                b \in StatusBodies(st)} : st \in Statuses }
    \cup { [newStatus |-> "suspended", didOrName |-> DidA,
            body |-> [reason |-> "why", signature |-> EmptyString]],
           [newStatus |-> "revoked", didOrName |-> <<"c">>,
            body |-> [reason |-> "why",
                      signature |-> Sign("sk1", Message("revoked", DidA, "why"))]] }

\* Up to the await: parse, resolve.  receivedAt is the server time at which
\* the request arrived; the handler never reads it.
StatusStart(r, newStatus, didOrName, body) ==
    /\ MayStart(r)
    /\ LET soul == resolveSoul(didOrName)
           Stop(http, code) ==
               /\ pc' = [pc EXCEPT ![r] = "done"]
               /\ req' = [req EXCEPT ![r] =
                      [kind |-> "status", newStatus |-> newStatus,
                       didOrName |-> didOrName, body |-> body,
                       receivedAt |-> now]]
               /\ Reply(r, http, code)
       IN IF ~StatusUpdateSchema(body)
          THEN Stop(400, "INVALID_REQUEST")
          ELSE IF soul = 0
          THEN Stop(404, "NOT_FOUND")
          ELSE /\ pc' = [pc EXCEPT ![r] = "await"]
               /\ req' = [req EXCEPT ![r] =
                      [kind |-> "status", newStatus |-> newStatus,
                       didOrName |-> didOrName, body |-> body,
                       receivedAt |-> now,
                       soul |-> [did |-> souls[soul].did,
                                 publicKey |-> souls[soul].publicKey]]]
               /\ UNCHANGED resp
    /\ UNCHANGED <<now, souls, challenges, nextChallenge>>

\* A handler for which revoked is final.
StatusFinishRevokedIsFinal(r) ==
    /\ pc[r] = "await"
    /\ req[r].kind = "status"
    /\ pc' = [pc EXCEPT ![r] = "done"]
    /\ IF ~verifySignature(Message(req[r].newStatus, req[r].soul.did, req[r].body.reason),
                           req[r].body.signature, req[r].soul.publicKey)
       THEN Reply(r, 401, "INVALID_SIGNATURE") /\ UNCHANGED souls
       ELSE IF souls[getSoulByDid(req[r].soul.did)].status = "revoked"
       THEN Reply(r, 409, "REVOKED") /\ UNCHANGED souls
       ELSE /\ souls' = updateSoulStatus(req[r].soul.did, req[r].newStatus,
                                         req[r].body.reason, now)
            /\ resp' = [resp EXCEPT ![r] =
                   [http |-> 200, code |-> "OK", did |-> req[r].soul.did,
                    status |-> req[r].newStatus, statusChangedAt |-> now]]
    /\ UNCHANGED <<now, challenges, nextChallenge, req>>

\* A handler that verifies the signature under the key of whoever signed.
StatusFinishAnyKey(r) ==
    /\ pc[r] = "await"
    /\ req[r].kind = "status"
    /\ pc' = [pc EXCEPT ![r] = "done"]
    /\ IF ~verifySignature(Message(req[r].newStatus, req[r].soul.did, req[r].body.reason),
                           req[r].body.signature,
                           PublicKeyOf(req[r].body.signature.signer))
       THEN Reply(r, 401, "INVALID_SIGNATURE") /\ UNCHANGED souls
       ELSE /\ souls' = updateSoulStatus(req[r].soul.did, req[r].newStatus,
                                         req[r].body.reason, now)
            /\ resp' = [resp EXCEPT ![r] =
                   [http |-> 200, code |-> "OK", did |-> req[r].soul.did,
                    status |-> req[r].newStatus, statusChangedAt |-> now]]
    /\ UNCHANGED <<now, challenges, nextChallenge, req>>

\* After the await: signature gate, then the status is written.
StatusFinish(r) ==
    /\ pc[r] = "await"
    /\ req[r].kind = "status"
    /\ pc' = [pc EXCEPT ![r] = "done"]
    /\ IF ~verifySignature(Message(req[r].newStatus, req[r].soul.did, req[r].body.reason),
                           req[r].body.signature, req[r].soul.publicKey)
       THEN Reply(r, 401, "INVALID_SIGNATURE") /\ UNCHANGED souls
       ELSE /\ souls' = updateSoulStatus(req[r].soul.did, req[r].newStatus,
                                         req[r].body.reason, now)
            /\ resp' = [resp EXCEPT ![r] =
                   [http |-> 200, code |-> "OK", did |-> req[r].soul.did,
                    status |-> req[r].newStatus, statusChangedAt |-> now]]
    /\ UNCHANGED <<now, challenges, nextChallenge, req>>

(***************************************************************************)
(* The update system: a registry that holds two identities, and            *)
(* MaxRequests contact and capabilities requests and the clock in any      *)
(* interleaving.                                                           *)
(***************************************************************************)
InitUpdate ==
    /\ now = 0
    /\ souls = TwoSouls
    /\ challenges = << >>
    /\ nextChallenge = 1
    /\ InitRequests(MaxRequests)

NextUpdate ==
    \/ \E r \in Reqs, q \in UpdateRequests(ContactBodies) :
          ContactStart(r, q.didOrName, q.body)
    \/ \E r \in Reqs : ContactFinish(r)
    \/ \E r \in Reqs, q \in UpdateRequests(CapabilitiesBodies) :
          CapabilitiesStart(r, q.didOrName, q.body)
    \/ \E r \in Reqs : CapabilitiesFinish(r)
    \/ Tick

SpecUpdate == InitUpdate /\ [][NextUpdate]_vars

(***************************************************************************)
(* The status system: the same registry, and MaxRequests suspend, revoke   *)
(* and reactivate requests in any interleaving.  These handlers read the   *)
(* clock only to stamp the change, so here the clock moves by more than    *)
(* the five-minute window at a time.                                       *)
(***************************************************************************)
NextStatus ==
    \/ \E r \in Reqs, q \in StatusRequests :
          StatusStart(r, q.newStatus, q.didOrName, q.body)
    \/ \E r \in Reqs : StatusFinish(r)
    \/ WindowPasses

SpecStatus == InitUpdate /\ [][NextStatus]_vars

(***************************************************************************)
(* The whole registry: one identity and one challenge issued for it at     *)
(* time 0, and MaxLifeRequests requests of any kind (register, challenge,  *)
(* verify, contact, capabilities, suspend/revoke/reactivate), the sweep    *)
(* and the clock in any interleaving.                                      *)
(***************************************************************************)
\* The register requests: a second identity, signed by its own key or by
\* the first identity's key.
LifeRegisterInputs ==
    { RegisterInput(SoulDocument(DidB, <<"b">>, "pk2"), "sk2", "same"),
      RegisterInput(SoulDocument(DidB, <<"b">>, "pk2"), "sk1", "same") }

\* What clients put for :didOrName in challenge and verify requests: the
\* first identity's did, the second identity's name.
LifeSubjects == {DidA, <<"B">>}

\* The verify bodies: a challenge that is stored, signed by either key.
LifeVerifyBodies ==
    {b \in VerifyBodies : b.challengeId \in ChallengeIds /\ VerifyRequestSchema(b)}

\* The update requests of one kind: to the first identity, with timestamp
\* 0, signed for that timestamp by its key or by the other key.
LifeUpdateRequests(bodies) ==
    {q \in UpdateRequests(bodies) :
        /\ q.didOrName = DidA
        /\ q.body.timestamp = 0
        /\ q.body.signature # EmptyString
        /\ q.body.signature.msg[3] = q.body.timestamp
        /\ \E b \in bodies : b.timestamp = MaxMinute /\ b.payload = q.body.payload}

\* The status requests: revoke and reactivate the first identity, signed by
\* its key; revoke it, signed by the other key; revoke a name that is not
\* registered.
LifeStatusRequests ==
    {q \in StatusRequests :
        /\ q.newStatus \in {"revoked", "active"}
        /\ q.body.signature # EmptyString
        /\ q.body.signature.signer = "sk2" => q.newStatus = "revoked"}

InitLife ==
    /\ now = 0
    /\ souls = << Row(1, SoulDocument(DidA, <<"a">>, "pk1"), 0) >>
    /\ challenges = createChallengeRow(1, DidA, 0)
    /\ nextChallenge = 2
    /\ InitRequests(MaxLifeRequests)

NextLife ==
    \/ \E r \in Reqs, in \in LifeRegisterInputs : RegisterStart(r, in)
    \/ \E r \in Reqs : RegisterFinish(r)
    \/ \E r \in Reqs, s \in LifeSubjects : IssueChallenge(r, s)
    \/ \E r \in Reqs, s \in LifeSubjects, body \in LifeVerifyBodies :
          VerifyStart(r, s, body)
    \/ \E r \in Reqs : VerifyFinish(r)
    \/ \E r \in Reqs, q \in LifeUpdateRequests(ContactBodies) :
          ContactStart(r, q.didOrName, q.body)
    \/ \E r \in Reqs : ContactFinish(r)
    \/ \E r \in Reqs, q \in LifeUpdateRequests(CapabilitiesBodies) :
          CapabilitiesStart(r, q.didOrName, q.body)
    \/ \E r \in Reqs : CapabilitiesFinish(r)
    \/ \E r \in Reqs, q \in LifeStatusRequests :
          StatusStart(r, q.newStatus, q.didOrName, q.body)
    \/ \E r \in Reqs : StatusFinish(r)
    \/ Sweep
    \/ Midnight

SpecLife == InitLife /\ [][NextLife]_vars

(***************************************************************************)
(* The functions of db.ts on their own.  A call is drawn with its          *)
(* arguments in the initial state and answered in one step.                *)
(***************************************************************************)
\* The documents hashed: the smallest the schema accepts, the one the
\* reference client builds (a platform in birth, a description), one with a
\* contact.
HashedDocuments ==
    { AsObject(SoulDocument(DidA, <<"a">>, "pk1")),
      AsObject([ did |-> DidA, name |-> <<"a">>, publicKey |-> "pk1",
                 birth |-> [timestamp |-> BirthTimestamp, operator |-> "Adam",
                            platform |-> "Agent Self-Registration"],
                 description |-> "An agent" ]),
      AsObject([ did |-> DidA, name |-> <<"a">>, publicKey |-> "pk1",
                 birth |-> [timestamp |-> BirthTimestamp, operator |-> "Adam"],
                 contact |-> [email |-> "a@example.org"] ]) }

\* hashSoulDocument called on a document and on the same document with its
\* properties in another order.
HashCalls ==
    UNION { { [kind |-> "hashSoulDocument", doc |-> doc, shuffled |-> shuffled] :
                shuffled \in Shuffles(doc) } :
            doc \in HashedDocuments }

\* The reference client hashing and signing a document it is about to
\* register, with the key the document names.
ClientCalls ==
    { [kind |-> "clientSign", doc |-> doc, privateKey |-> "sk1"] :
        doc \in UNION {Shuffles(d) : d \in HashedDocuments} }

\* verifySignature called on strings: every spelling of a signature and of a
\* key, and strings that spell neither.
SignatureTexts ==
    UNION { Encodings(toHex(signatureBytes(k, m))) \cup Malformed(toHex(signatureBytes(k, m))) :
            k \in PrivateKeys, m \in SignedMessages }
PublicKeyTexts ==
    UNION { Encodings(toHex(publicKeyBytes(k))) \cup Malformed(toHex(publicKeyBytes(k))) :
            k \in PrivateKeys }
VerifyCalls ==
    { [kind |-> "verifySignature", message |-> m, signature |-> sig,
       publicKey |-> key, library |-> lib] :
        m \in SignedMessages, sig \in SignatureTexts, key \in PublicKeyTexts,
        lib \in LibraryBehaviours }

InitFunctions ==
    /\ now = 0
    /\ souls = << >>
    /\ challenges = << >>
    /\ nextChallenge = 1
    /\ pc = <<"idle">>
    /\ req \in {<<call>> : call \in HashCalls \cup ClientCalls \cup VerifyCalls}
    /\ resp = <<NoResp>>

Answer(r, result) ==
    /\ pc' = [pc EXCEPT ![r] = "done"]
    /\ resp' = [resp EXCEPT ![r] = result]
    /\ UNCHANGED <<now, souls, challenges, nextChallenge, req>>

HashSoulDocumentCall(r) ==
    /\ pc[r] = "idle"
    /\ req[r].kind = "hashSoulDocument"
    /\ Answer(r, [hash |-> serverHashSoulDocument(req[r].doc),
                  hashShuffled |-> serverHashSoulDocument(req[r].shuffled)])

\* The client hashes and signs; the server hashes the document it received
\* and verifies the signature over its own hash with the document's key.
ClientSignCall(r) ==
    /\ pc[r] = "idle"
    /\ req[r].kind = "clientSign"
    /\ LET docHash == clientHashSoulDocument(req[r].doc)
           signature == Sign(req[r].privateKey, docHash)
           serverHash == serverHashSoulDocument(req[r].doc)
       IN Answer(r, [client |-> docHash,
                     server |-> serverHash,
                     verifies |-> verifySignature(serverHash, signature,
                                                  get(req[r].doc, "publicKey"))])

VerifySignatureCall(r) ==
    /\ pc[r] = "idle"
    /\ req[r].kind = "verifySignature"
    /\ Answer(r, verifySignatureText(req[r].message, req[r].signature,
                                     req[r].publicKey, req[r].library))

NextFunctions ==
    \/ \E r \in Reqs : HashSoulDocumentCall(r)
    \/ \E r \in Reqs : ClientSignCall(r)
    \/ \E r \in Reqs : VerifySignatureCall(r)

SpecFunctions == InitFunctions /\ [][NextFunctions]_vars

(***************************************************************************)
(* The system is checked in five parts (SpecRegister, SpecChallenge,       *)
(* SpecUpdate, SpecStatus, SpecLife), each from a registry the program can *)
(* hold, and its functions in a sixth (SpecFunctions).                     *)
(*                                                                         *)
(* Registration: the claims.                                               *)
(***************************************************************************)
IsRegister(r) == req[r].kind = "register"
Doc(r) == req[r].body.soulDocument
Created(r) == resp[r].code = "CREATED"

\* A register request that is well formed, declares the did of its name and
\* carries the signature of the document's own key over the document's hash.
GoodRegister(r) ==
    /\ IsRegister(r)
    /\ RegisterRequestSchema(req[r].body)
    /\ DidMatchesName(Doc(r))
    /\ req[r].body.signature = Sign(KeyOwner(Doc(r).publicKey), hashSoulDocument(Doc(r)))

\* C3: of two register requests for the same case-insensitive name, both
\* validly signed, exactly one is answered 201 and the other NAME_TAKEN.
C3_RegistrationRace ==
    \A r1, r2 \in Reqs :
        ( /\ r1 # r2
          /\ pc[r1] = "done" /\ pc[r2] = "done"
          /\ GoodRegister(r1) /\ GoodRegister(r2)
          /\ toLowerCase(Doc(r1).name) = toLowerCase(Doc(r2).name) )
        => \/ Created(r1) /\ resp[r2].code = "NAME_TAKEN"
           \/ Created(r2) /\ resp[r1].code = "NAME_TAKEN"

\* C4: no two identity records have the same did, and no two have names
\* that are equal ignoring letter case.
C4_Uniqueness ==
    \A i, j \in RowIds :
        i # j => /\ souls[i].did # souls[j].did
                 /\ toLowerCase(souls[i].name) # toLowerCase(souls[j].name)

\* C4's case: a second insert for a name already stored was attempted and
\* refused by the table.
C4_Witness ==
    /\ Len(souls) = 1
    /\ \E r \in Reqs : resp[r].code = "INTERNAL_ERROR"

\* C7: documents that differ in any field at any depth hash differently, so
\* a signature over the hash of a different document never registers the
\* submitted one.
C7_HashBindsDocument ==
    \A r \in Reqs :
        (IsRegister(r) /\ req[r].signedDoc # Doc(r))
        => /\ hashSoulDocument(req[r].signedDoc) # hashSoulDocument(Doc(r))
           /\ ~Created(r)

\* C8: a record is created only by a request whose signature verifies over
\* hash(document) under the publicKey of that same document; a request
\* signed by another key is refused (with INVALID_SIGNATURE once it reaches
\* the signature gate), and every row belongs to a created request.
C8_SelfAssertedKey ==
    /\ \A r \in Reqs :
          Created(r) =>
             /\ req[r].body.signature.signer \in PrivateKeys
             /\ PublicKeyOf(req[r].body.signature.signer) = Doc(r).publicKey
             /\ req[r].body.signature.msg = hashSoulDocument(Doc(r))
    /\ \A r \in Reqs :
          ( /\ IsRegister(r) /\ pc[r] = "done"
            /\ PublicKeyOf(req[r].body.signature.signer) # Doc(r).publicKey )
          => resp[r].code \in
                {"INVALID_REQUEST", "DID_MISMATCH", "NAME_TAKEN", "INVALID_SIGNATURE"}
    /\ Len(souls) = Cardinality({r \in Reqs : Created(r)})
    /\ \A i \in RowIds :
          \E r \in Reqs : /\ Created(r)
                          /\ souls[i].did = Doc(r).did
                          /\ souls[i].publicKey = Doc(r).publicKey

\* C8's case: a signature over the right hash by a key that is not the
\* document's was refused at the signature gate.
C8_Witness ==
    \E r \in Reqs :
        /\ IsRegister(r)
        /\ resp[r].code = "INVALID_SIGNATURE"
        /\ req[r].body.signature.msg = hashSoulDocument(Doc(r))
        /\ PublicKeyOf(req[r].body.signature.signer) # Doc(r).publicKey

\* C9: every stored record has the did derived from its name, and a
\* well-formed request whose declared did differs from the derived one, be
\* it by letter case only, is answered DID_MISMATCH.
C9_DerivedDid ==
    /\ \A i \in RowIds : souls[i].did = DidPrefix \o toLowerCase(souls[i].name)
    /\ \A r \in Reqs :
          ( /\ IsRegister(r) /\ pc[r] = "done"
            /\ RegisterRequestSchema(req[r].body)
            /\ Doc(r).did # DidPrefix \o toLowerCase(Doc(r).name) )
          => resp[r].code = "DID_MISMATCH"

\* C10: a step in which a register request ends without creating a record
\* leaves the souls table as it was.
C10_FailedRegisterNoEffect ==
    [][ \A r \in Reqs :
          ( /\ pc[r] # "done" /\ pc'[r] = "done"
            /\ req'[r].kind = "register"
            /\ resp'[r].code # "CREATED" )
          => souls' = souls ]_vars

\* C10's case: a request was refused at a gate while a record existed.
C10_Witness ==
    /\ Len(souls) >= 1
    /\ \E r \in Reqs : IsRegister(r) /\ resp[r].code = "INVALID_SIGNATURE"

(***************************************************************************)
(* Challenges: the claims.                                                 *)
(***************************************************************************)
Verified(r) == resp[r].code = "VERIFIED"

\* C1: once a complete on a challenge has succeeded, every complete on it
\* that arrives later, at whatever time and with whatever signature, is
\* answered CHALLENGE_USED and leaves the souls table unchanged.
C1_SingleUse ==
    [][ \A r \in Reqs :
          ( /\ pc[r] = "idle" /\ pc'[r] # "idle"
            /\ req'[r].kind = "verify"
            /\ VerifyRequestSchema(req'[r].body)
            /\ \E q \in Reqs :
                  /\ Verified(q)
                  /\ req[q].body.challengeId = req'[r].body.challengeId )
          => /\ pc'[r] = "done"
             /\ resp'[r].code = "CHALLENGE_USED"
             /\ souls' = souls ]_vars

\* C2: of the complete requests on one challenge at most one is answered
\* verified, and each identity's verificationCount is the number of its
\* challenges that were completed.
C2_NoDoubleCompletion ==
    /\ \A c \in 1..(nextChallenge - 1) :
          Cardinality({r \in Reqs : Verified(r) /\ req[r].body.challengeId = c}) <= 1
    /\ \A i \in RowIds :
          souls[i].verificationCount =
             Cardinality({c \in 1..(nextChallenge - 1) :
                 \E r \in Reqs : /\ Verified(r)
                                 /\ req[r].body.challengeId = c
                                 /\ resp[r].did = souls[i].did})

(***************************************************************************)
(* Updates and status changes: the claims.                                 *)
(***************************************************************************)
UpdateTag(r) == IF req[r].kind = "contact" THEN "contact-update" ELSE "capabilities-update"

\* C5: a status-change request that was accepted at server time t is
\* refused when the identical request arrives later than t + 5 minutes.
C5_StatusFreshness ==
    \A r1, r2 \in Reqs :
        ( /\ r1 # r2
          /\ req[r1].kind = "status" /\ req[r2].kind = "status"
          /\ resp[r1].code = "OK"
          /\ pc[r2] = "done"
          /\ req[r2].newStatus = req[r1].newStatus
          /\ req[r2].didOrName = req[r1].didOrName
          /\ req[r2].body = req[r1].body
          /\ req[r2].receivedAt > resp[r1].statusChangedAt + FiveMinutes )
        => resp[r2].code # "OK"

\* C6: a well-formed contact or capabilities update for an existing
\* identity whose timestamp is more than 5 minutes older than server time is
\* answered TIMESTAMP_EXPIRED at once, whatever its signature, and the
\* souls table is left as it was.
C6_MetadataFreshness ==
    [][ \A r \in Reqs :
          ( /\ pc[r] = "idle" /\ pc'[r] # "idle"
            /\ req'[r].kind \in {"contact", "capabilities"}
            /\ UpdateSchema(req'[r].kind, req'[r].body)
            /\ resolveSoul(req'[r].didOrName) # 0
            /\ req'[r].body.timestamp + FiveMinutes < now )
          => /\ pc'[r] = "done"
             /\ resp'[r].code = "TIMESTAMP_EXPIRED"
             /\ souls' = souls ]_vars

\* C6's case: an update of each kind, signed by the identity's stored key
\* for the very timestamp it carries, was refused as too old.
C6_Witness ==
    \A kind \in {"contact", "capabilities"} :
        \E r \in Reqs :
            /\ req[r].kind = kind
            /\ resp[r].code = "TIMESTAMP_EXPIRED"
            /\ verifySignature(
                   Message(UpdateTag(r), souls[resolveSoul(req[r].didOrName)].did,
                           req[r].body.timestamp),
                   req[r].body.signature,
                   souls[resolveSoul(req[r].didOrName)].publicKey)

\* A request r ends in this step.
Ends(r) == pc[r] # "done" /\ pc'[r] = "done"

\* C11: a record's contact, capabilities or riskLevel changes only in the
\* step that ends an update request addressed to that record with OK, whose
\* signature verifies under the record's stored publicKey over
\* "<operation tag>:<did>:<timestamp>"; a request that ends with NOT_FOUND,
\* TIMESTAMP_EXPIRED or INVALID_SIGNATURE leaves the souls table as it was.
C11_UpdateAuthorization ==
    [][ /\ \A i \in RowIds :
              ( \/ souls'[i].contact # souls[i].contact
                \/ souls'[i].capabilities # souls[i].capabilities
                \/ souls'[i].riskLevel # souls[i].riskLevel )
              => \E r \in Reqs :
                    /\ Ends(r)
                    /\ req[r].kind \in {"contact", "capabilities"}
                    /\ resp'[r].code = "OK"
                    /\ resolveSoul(req[r].didOrName) = i
                    /\ verifySignature(
                           Message(UpdateTag(r), souls[i].did, req[r].body.timestamp),
                           req[r].body.signature, souls[i].publicKey)
        /\ \A r \in Reqs :
              ( /\ Ends(r)
                /\ req'[r].kind \in {"contact", "capabilities"}
                /\ resp'[r].code \in {"NOT_FOUND", "TIMESTAMP_EXPIRED", "INVALID_SIGNATURE"} )
              => souls' = souls ]_vars

\* C11's case: an update signed by a key that is not the record's was
\* refused, and an update signed by the record's key was applied.
C11_Witness ==
    /\ \E r \in Reqs :
          /\ req[r].kind \in {"contact", "capabilities"}
          /\ resp[r].code = "INVALID_SIGNATURE"
          /\ req[r].body.signature.signer = "sk2"
    /\ \E r \in Reqs : req[r].kind \in {"contact", "capabilities"} /\ resp[r].code = "OK"
    /\ souls[1].version = 2

(***************************************************************************)
(* Challenges: further claims.                                             *)
(***************************************************************************)
\* Request r arrives in this step as a well-formed verify request.
VerifyArrives(r) ==
    /\ pc[r] = "idle" /\ pc'[r] # "idle"
    /\ req'[r].kind = "verify"
    /\ VerifyRequestSchema(req'[r].body)

\* C12: a challenge that has left pending keeps its status for as long as
\* its row exists: completed never becomes expired, expired never becomes
\* completed, neither returns to pending.
C12_TerminalStatus ==
    [][ \A c \in ChallengeIds :
          (c \in DOMAIN challenges' /\ challenges[c].status # "pending")
          => challenges'[c].status = challenges[c].status ]_vars

\* C13: a well-formed complete on a stored challenge whose expiresAt is
\* earlier than server time is answered CHALLENGE_EXPIRED at once, whatever
\* its signature and whether or not the challenge was attempted before, and
\* the souls table is left as it was.
C13_ExpiryDominates ==
    [][ \A r \in Reqs :
          ( /\ VerifyArrives(r)
            /\ req'[r].body.challengeId \in ChallengeIds
            /\ challenges[req'[r].body.challengeId].expiresAt < now )
          => /\ pc'[r] = "done"
             /\ resp'[r].code = "CHALLENGE_EXPIRED"
             /\ souls' = souls ]_vars

\* C13's case: the first complete ever made on a challenge, addressed to
\* its subject and signed by the subject's key over its nonce, was answered
\* CHALLENGE_EXPIRED.
C13_Witness ==
    \E r \in Reqs :
        /\ req[r].kind = "verify"
        /\ resp[r].code = "CHALLENGE_EXPIRED"
        /\ req[r].body.challengeId = 1
        /\ req[r].didOrName = DidA
        /\ req[r].body.signature = Sign("sk1", generateNonce(1))
        /\ \A q \in Reqs : q # r => pc[q] = "idle"
        /\ souls[1].verificationCount = 0

\* C14: a complete that resumes from its await after the sweep has removed
\* its challenge is not answered verified and leaves the souls table as it
\* was; and the sweep never removes a completed challenge.
C14_SweepRace ==
    [][ /\ \A r \in Reqs :
              ( /\ pc[r] = "await" /\ pc'[r] = "done"
                /\ req[r].kind = "verify"
                /\ req[r].body.challengeId \notin ChallengeIds )
              => /\ resp'[r].code # "VERIFIED"
                 /\ souls' = souls
        /\ \A c \in ChallengeIds :
              challenges[c].status = "completed" => c \in DOMAIN challenges' ]_vars

\* C15: a well-formed complete on a pending, unexpired challenge that is
\* addressed to an existing identity other than the one the challenge was
\* issued for is answered DID_MISMATCH at once, whatever its signature, and
\* leaves the challenges and the souls tables as they were.
C15_SubjectBinding ==
    [][ \A r \in Reqs :
          ( /\ VerifyArrives(r)
            /\ req'[r].body.challengeId \in ChallengeIds
            /\ challenges[req'[r].body.challengeId].status = "pending"
            /\ ~(challenges[req'[r].body.challengeId].expiresAt < now)
            /\ resolveSoul(req'[r].didOrName) # 0
            /\ souls[resolveSoul(req'[r].didOrName)].did
                  # challenges[req'[r].body.challengeId].did )
          => /\ pc'[r] = "done"
             /\ resp'[r].code = "DID_MISMATCH"
             /\ challenges' = challenges
             /\ souls' = souls ]_vars

\* C15's case: a complete on the first identity's challenge, addressed to
\* the second identity and signed by the second identity's key over the
\* nonce, was answered DID_MISMATCH and the challenge is pending.
C15_Witness ==
    \E r \in Reqs :
        /\ req[r].kind = "verify"
        /\ resp[r].code = "DID_MISMATCH"
        /\ req[r].body.challengeId = 1
        /\ resolveSoul(req[r].didOrName) = 2
        /\ req[r].body.signature = Sign(KeyOwner(souls[2].publicKey), generateNonce(1))
        /\ challenges[1].status = "pending"
        /\ \A i \in RowIds : souls[i].verificationCount = 0

\* The signature of the challenge's subject over the challenge's nonce.
CorrectSignature(c) ==
    Sign(KeyOwner(souls[getSoulByDid(challenges[c].did)].publicKey), challenges[c].nonce)

\* C20: a complete that is answered INVALID_SIGNATURE leaves the challenges
\* and the souls tables as they were; a complete on a pending, unexpired
\* challenge, addressed to its subject and signed by the subject's key,
\* passes every gate before the signature check; and a complete with that
\* signature which reaches the check is answered verified and raises the
\* subject's verificationCount by 1.
C20_FailedAttemptKeepsChallenge ==
    [][ \A r \in Reqs :
          /\ ( /\ Ends(r)
                /\ req'[r].kind = "verify"
                /\ resp'[r].code = "INVALID_SIGNATURE" )
             => challenges' = challenges /\ souls' = souls
          /\ ( /\ VerifyArrives(r)
                /\ req'[r].body.challengeId \in ChallengeIds
                /\ challenges[req'[r].body.challengeId].status = "pending"
                /\ ~(challenges[req'[r].body.challengeId].expiresAt < now)
                /\ resolveSoul(req'[r].didOrName) # 0
                /\ souls[resolveSoul(req'[r].didOrName)].did
                      = challenges[req'[r].body.challengeId].did
                /\ req'[r].body.signature = CorrectSignature(req'[r].body.challengeId) )
             => pc'[r] = "await"
          /\ ( /\ pc[r] = "await" /\ pc'[r] = "done"
                /\ req[r].kind = "verify"
                /\ req[r].body.signature
                      = Sign(KeyOwner(req[r].soul.publicKey), req[r].challenge.nonce) )
             => /\ resp'[r].code = "VERIFIED"
                /\ \A i \in RowIds :
                      souls[i].did = req[r].soul.did
                      => souls'[i].verificationCount = souls[i].verificationCount + 1 ]_vars

\* C20's case: on one challenge of a fresh record, a complete signed by the
\* wrong key was answered INVALID_SIGNATURE and a later complete signed by
\* the right key was answered verified; the count went from 0 to 1.
C20_Witness ==
    \E r1, r2 \in Reqs :
        /\ r1 < r2
        /\ req[r1].kind = "verify" /\ req[r2].kind = "verify"
        /\ req[r1].body.challengeId = 1 /\ req[r2].body.challengeId = 1
        /\ resp[r1].code = "INVALID_SIGNATURE"
        /\ req[r1].body.signature = Sign("sk2", generateNonce(1))
        /\ Verified(r2)
        /\ souls[1].verificationCount = 1
        /\ 1 \in ChallengeIds /\ challenges[1].status = "completed"

(***************************************************************************)
(* The whole registry: the claims.                                         *)
(***************************************************************************)
\* C16: in every step, every record keeps its did, name, publicKey and
\* birth certificate.
C16_ImmutableIdentity ==
    [][ \A i \in RowIds \cap DOMAIN souls' :
          /\ souls'[i].did = souls[i].did
          /\ souls'[i].name = souls[i].name
          /\ souls'[i].publicKey = souls[i].publicKey
          /\ souls'[i].birth = souls[i].birth ]_vars

\* C16's case: the first record has had its contact replaced and its status
\* changed.
C16_Witness ==
    /\ souls[1].contact # None
    /\ souls[1].status # "active"
    /\ souls[1].version = 3
    /\ souls[1].did = DidA

\* C17: a new record starts with verificationCount 0 and no lastVerifiedAt;
\* the step that ends a complete for a record with verified raises that
\* record's verificationCount by exactly 1 and sets its lastVerifiedAt; every
\* other step leaves both fields of the record as they were.
C17_VerificationBookkeeping ==
    [][ /\ \A i \in DOMAIN souls' \ RowIds :
              souls'[i].verificationCount = 0 /\ souls'[i].lastVerifiedAt = None
        /\ \A i \in RowIds \cap DOMAIN souls' :
              IF \E r \in Reqs : /\ Ends(r)
                                 /\ req[r].kind = "verify"
                                 /\ resp'[r].code = "VERIFIED"
                                 /\ resp'[r].did = souls[i].did
              THEN /\ souls'[i].verificationCount = souls[i].verificationCount + 1
                   /\ souls'[i].lastVerifiedAt = Some(now)
              ELSE /\ souls'[i].verificationCount = souls[i].verificationCount
                   /\ souls'[i].lastVerifiedAt = souls[i].lastVerifiedAt ]_vars

\* C17's case: a second record was registered and a complete for the first
\* record succeeded; the first record counts 1, the second 0.
C17_Witness ==
    /\ Len(souls) = 2
    /\ \E r \in Reqs : Created(r)
    /\ \E r \in Reqs : Verified(r) /\ resp[r].did = souls[1].did
    /\ souls[1].verificationCount = 1 /\ souls[1].lastVerifiedAt # None
    /\ souls[2].verificationCount = 0 /\ souls[2].lastVerifiedAt = None

\* C18: a record's status, statusReason or statusChangedAt changes only in
\* the step that ends a suspend, revoke or reactivate request addressed to
\* that record with OK, whose signature verifies under the record's stored
\* publicKey over "<target status>:<did>:<reason>"; a status request that
\* ends with NOT_FOUND or INVALID_SIGNATURE leaves the souls table as it was.
C18_StatusAuthorization ==
    [][ /\ \A i \in RowIds \cap DOMAIN souls' :
              ( \/ souls'[i].status # souls[i].status
                \/ souls'[i].statusReason # souls[i].statusReason
                \/ souls'[i].statusChangedAt # souls[i].statusChangedAt )
              => \E r \in Reqs :
                    /\ Ends(r)
                    /\ req[r].kind = "status"
                    /\ resp'[r].code = "OK"
                    /\ resolveSoul(req[r].didOrName) = i
                    /\ souls'[i].status = req[r].newStatus
                    /\ verifySignature(
                           Message(req[r].newStatus, souls[i].did, req[r].body.reason),
                           req[r].body.signature, souls[i].publicKey)
        /\ \A r \in Reqs :
              ( /\ Ends(r)
                /\ req'[r].kind = "status"
                /\ resp'[r].code \in {"NOT_FOUND", "INVALID_SIGNATURE"} )
              => souls' = souls ]_vars

\* C18's case: a status request signed by a key that is not the record's
\* was refused, and one signed by the record's key was applied.
C18_Witness ==
    /\ \E r \in Reqs :
          /\ req[r].kind = "status"
          /\ resp[r].code = "INVALID_SIGNATURE"
          /\ req[r].body.signature.signer = "sk2"
    /\ \E r \in Reqs : req[r].kind = "status" /\ resp[r].code = "OK"
    /\ souls[1].status # "active"
    /\ souls[1].statusReason # None

\* C19: every record of a state is in the next state with the same did and
\* name, and the record of every register request that succeeded is found
\* by its name.
C19_NeverDeleted ==
    [][ /\ \A i \in RowIds :
              \E j \in DOMAIN souls' :
                  souls'[j].did = souls[i].did /\ souls'[j].name = souls[i].name
        /\ \A r \in Reqs :
              Created(r) =>
                 /\ getSoulByName(Doc(r).name) # 0
                 /\ souls[getSoulByName(Doc(r).name)].did = Doc(r).did ]_vars

\* C19's case: a register request succeeded, an identity was revoked, and
\* both records are in the table.
C19_Witness ==
    /\ \E r \in Reqs : Created(r)
    /\ \E i \in RowIds : souls[i].status = "revoked"
    /\ Len(souls) = 2

\* A contact update, capabilities update or status change of this did was
\* answered OK.
Updated(r, did) ==
    /\ req[r].kind \in {"contact", "capabilities", "status"}
    /\ resp[r].code = "OK"
    /\ resp[r].did = did

\* C24: a record's version never decreases; the step that ends a
\* successful contact update, capabilities update or status change of the
\* record raises its version by exactly 1, however the requests interleave;
\* and a record that had k such updates and no challenge completion has
\* version 1 + k.
C24_NoLostVersionIncrement ==
    [][ \A i \in RowIds \cap DOMAIN souls' :
          /\ souls'[i].version >= souls[i].version
          /\ (\E r \in Reqs :
                 /\ Ends(r)
                 /\ req[r].kind \in {"contact", "capabilities", "status"}
                 /\ resp'[r].code = "OK"
                 /\ resp'[r].did = souls[i].did)
             => souls'[i].version = souls[i].version + 1
          /\ souls[i].verificationCount = 0
             => souls[i].version
                  = 1 + Cardinality({r \in Reqs : Updated(r, souls[i].did)}) ]_vars

\* C24's case: every request was a successful update of the first record
\* (in whatever interleaving); the version is 1 plus their number.
C24_Witness ==
    /\ \A r \in Reqs : Updated(r, DidA)
    /\ Cardinality(Reqs) >= 2
    /\ souls[1].version = 1 + Cardinality(Reqs)

\* C25: every step that changes a record raises its version by 1; so does
\* the step of a successful challenge completion.
C25_VersionOnEveryMutation ==
    [][ \A i \in RowIds \cap DOMAIN souls' :
          souls'[i] # souls[i] => souls'[i].version = souls[i].version + 1 ]_vars

\* C26: in every state, a run of the sweep removes every challenge that is
\* pending and whose expiresAt is earlier than the server time, be it by
\* minutes on the same calendar day, and a second run right after it
\* removes nothing.
C26_SweepComplete ==
    /\ Swept(now) = {c \in ChallengeIds :
                        challenges[c].status = "pending" /\ challenges[c].expiresAt < now}
    /\ \A c \in DOMAIN cleanExpiredChallenges(now) :
          ~( /\ TextLess(toISOString(challenges[c].expiresAt), datetimeNow(now))
             /\ challenges[c].status = "pending" )

\* C27: a challenge leaves the table only while it is pending and its
\* expiresAt is earlier than the server time; a challenge that is completed
\* or expired, or not yet past its expiresAt, stays.
C27_SweepSound ==
    [][ \A c \in ChallengeIds :
          c \notin DOMAIN challenges'
          => /\ challenges[c].status = "pending"
             /\ challenges[c].expiresAt < now ]_vars

\* C27's case: the sweep has removed a challenge, and a completed or expired
\* challenge whose expiresAt is past is still in the table.
C27_Witness ==
    /\ \E c \in 1..(nextChallenge - 1) : c \notin ChallengeIds
    /\ \E c \in ChallengeIds :
          challenges[c].status \in {"completed", "expired"} /\ challenges[c].expiresAt < now

\* C28: a well-formed status request for an existing record is never
\* refused before the signature check, and one whose signature verifies is
\* answered OK and sets the status to its target, whatever the status of
\* the record is at that moment.
C28_UnconstrainedStatusGraph ==
    [][ \A r \in Reqs :
          /\ ( /\ pc[r] = "idle" /\ pc'[r] # "idle"
                /\ req'[r].kind = "status"
                /\ StatusUpdateSchema(req'[r].body)
                /\ resolveSoul(req'[r].didOrName) # 0 )
             => pc'[r] = "await"
          /\ ( /\ pc[r] = "await" /\ pc'[r] = "done"
                /\ req[r].kind = "status"
                /\ verifySignature(
                       Message(req[r].newStatus, req[r].soul.did, req[r].body.reason),
                       req[r].body.signature, req[r].soul.publicKey) )
             => /\ resp'[r].code = "OK"
                /\ souls'[resolveSoul(req[r].didOrName)].status = req[r].newStatus ]_vars

\* C28's case: the record was revoked and then set to active again (the
\* reactivation wrote last, so it found the record revoked).
C28_Witness ==
    \E r1, r2 \in Reqs :
        /\ req[r1].kind = "status" /\ req[r2].kind = "status"
        /\ resp[r1].code = "OK" /\ resp[r2].code = "OK"
        /\ req[r1].newStatus = "revoked" /\ req[r2].newStatus = "active"
        /\ souls[1].status = "active"
        /\ souls[1].version = 3

\* C29: a well-formed contact or capabilities update for an existing
\* identity whose timestamp is more than 5 minutes ahead of server time is
\* answered TIMESTAMP_EXPIRED at once and goes no further.
C29_TwoSidedWindow ==
    [][ \A r \in Reqs :
          ( /\ pc[r] = "idle" /\ pc'[r] # "idle"
            /\ req'[r].kind \in {"contact", "capabilities"}
            /\ UpdateSchema(req'[r].kind, req'[r].body)
            /\ resolveSoul(req'[r].didOrName) # 0
            /\ req'[r].body.timestamp > now + FiveMinutes )
          => /\ pc'[r] = "done"
             /\ resp'[r].code = "TIMESTAMP_EXPIRED" ]_vars

\* The spellings of a name in other letter cases.
Spellings(name) == {n \in {<<"a">>, <<"A">>, <<"b">>, <<"B">>} :
                       toLowerCase(n) = toLowerCase(name)}

\* C30: every record is returned by resolve with its stored did and by
\* resolve with its name in any letter case, without _registryId and
\* _version.
C30_ResolvableByBothKeys ==
    \A i \in RowIds :
        \A key \in {souls[i].did} \cup Spellings(souls[i].name) :
            /\ Resolve(key).http = 200
            /\ Resolve(key).body.did = souls[i].did
            /\ Resolve(key).body.name = souls[i].name
            /\ "_registryId" \notin DOMAIN Resolve(key).body
            /\ "_version" \notin DOMAIN Resolve(key).body

(***************************************************************************)
(* The functions: the claims.                                              *)
(***************************************************************************)
Answered(r, kind) == pc[r] = "done" /\ req[r].kind = kind

\* The private keys whose signature over the message and whose public key
\* the two strings spell.
Signers(message, signature, publicKey) ==
    { k \in PrivateKeys :
        /\ signature \in Encodings(toHex(signatureBytes(k, message)))
        /\ publicKey \in Encodings(toHex(publicKeyBytes(k))) }

\* C21: a call of verifySignature does not throw and resolves to a boolean;
\* it resolves to false when either string fails to decode or the decoded
\* bytes fail the cryptographic check, and to true only for a spelling of a
\* signature over the message with a spelling of the signer's public key.
C21_VerifySignatureNeverThrows ==
    \A r \in Reqs :
        Answered(r, "verifySignature") =>
            LET sigBytes == decodeBase58OrHex(req[r].signature)
                pubKeyBytes == decodeBase58OrHex(req[r].publicKey)
            IN /\ resp[r].threw = FALSE
               /\ resp[r].value \in BOOLEAN
               /\ sigBytes.threw \/ pubKeyBytes.threw => resp[r].value = FALSE
               /\ resp[r].value = TRUE <=>
                      Signers(req[r].message, req[r].signature, req[r].publicKey) # {}

\* C21's case: a call with a signature string that base58Decode throws on,
\* where the library throws on a wrong length, was answered false.
C21_Witness ==
    \E r \in Reqs :
        /\ Answered(r, "verifySignature")
        /\ decodeBase58OrHex(req[r].signature).threw
        /\ req[r].publicKey = << >>
        /\ req[r].library = "throws"
        /\ resp[r] = Resolved(FALSE)

\* C22: hashSoulDocument returns the same hash for a document and for the
\* same document with its properties, and those of its nested objects, in
\* any other order.
C22_OrderIndependent ==
    \A r \in Reqs :
        Answered(r, "hashSoulDocument") => resp[r].hash = resp[r].hashShuffled

\* C22's case: a document was hashed whose properties are in another order
\* both at the top level and inside birth.
C22_Witness ==
    \E r \in Reqs :
        /\ Answered(r, "hashSoulDocument")
        /\ keys(req[r].shuffled) # keys(req[r].doc)
        /\ keys(get(req[r].shuffled, "birth")) # keys(get(req[r].doc, "birth"))
        /\ resp[r].hash = resp[r].hashShuffled

\* C23: for every document the reference client hashes and signs, its hash
\* is the server's hash of the same document, and the server's verification
\* of the client's signature succeeds.
C23_ClientMatchesServer ==
    \A r \in Reqs :
        Answered(r, "clientSign") =>
            /\ resp[r].client = resp[r].server
            /\ resp[r].verifies

(***************************************************************************)
(* Issuing and registering: the claims.                                    *)
(***************************************************************************)
\* The records a subject names: by their did, or by their name in any
\* letter case.
Named(didOrName) ==
    {i \in RowIds : \/ souls[i].did = didOrName
                    \/ toLowerCase(souls[i].name) = toLowerCase(didOrName)}

\* C31: the step that answers an issue-challenge request for a subject that
\* names a record adds exactly one challenge, pending, with the record's
\* stored did, issued at server time and expiring exactly five minutes
\* later, and leaves the other challenges and every record as they were; for
\* a subject that names no record it answers NOT_FOUND and adds no challenge.
C31_IssueChallenge ==
    [][ \A r \in Reqs :
          (Ends(r) /\ req'[r].kind = "challenge") =>
             /\ souls' = souls
             /\ \A c \in ChallengeIds : c \in DOMAIN challenges' /\ challenges'[c] = challenges[c]
             /\ IF Named(req'[r].didOrName) = {}
                THEN /\ resp'[r].code = "NOT_FOUND"
                     /\ resp'[r].http = 404
                     /\ challenges' = challenges
                ELSE /\ resp'[r].http = 200
                     /\ Cardinality(DOMAIN challenges' \ ChallengeIds) = 1
                     /\ \A c \in DOMAIN challenges' \ ChallengeIds :
                          /\ c = resp'[r].challengeId
                          /\ challenges'[c].status = "pending"
                          /\ \E i \in Named(req'[r].didOrName) :
                                challenges'[c].did = souls[i].did
                          /\ challenges'[c].issuedAt = now
                          /\ challenges'[c].expiresAt = challenges'[c].issuedAt + 5 ]_vars

\* C31's case: a challenge was issued for a subject given by its name in
\* another letter case, after the clock had moved, and it carries the
\* record's did; another request, for an unregistered name, was answered
\* NOT_FOUND.
C31_Witness ==
    \E r, q \in Reqs :
        /\ req[r].kind = "challenge" /\ req[r].didOrName = <<"B">>
        /\ resp[r].http = 200
        /\ resp[r].challengeId \in ChallengeIds
        /\ challenges[resp[r].challengeId].did = DidB
        /\ challenges[resp[r].challengeId].issuedAt > 0
        /\ req[q].kind = "challenge" /\ req[q].didOrName = <<"c">>
        /\ resp[q].code = "NOT_FOUND"

\* C32: the step that answers a register request with CREATED appends
\* exactly one record, with status active, verificationCount 0, version 1,
\* no lastVerifiedAt, and the did, name, publicKey and birth of the submitted
\* document, and leaves every existing record as it was.
C32_RegistrationPersists ==
    [][ \A r \in Reqs :
          (Ends(r) /\ req'[r].kind = "register" /\ resp'[r].code = "CREATED") =>
             LET new == Len(souls) + 1
                 doc == req'[r].body.soulDocument
             IN /\ Len(souls') = new
                /\ \A i \in RowIds : souls'[i] = souls[i]
                /\ souls'[new].status = "active"
                /\ souls'[new].verificationCount = 0
                /\ souls'[new].version = 1
                /\ souls'[new].lastVerifiedAt = None
                /\ souls'[new].did = doc.did
                /\ souls'[new].name = doc.name
                /\ souls'[new].publicKey = doc.publicKey
                /\ souls'[new].birth = doc.birth ]_vars

(***************************************************************************)
(* Updates: the payload and the gates.                                     *)
(***************************************************************************)
UpdateKinds == {"contact", "capabilities"}
BodiesOf(kind) == IF kind = "contact" THEN ContactBodies ELSE CapabilitiesBodies
UpdateOutcomes ==
    {"await", "OK", "INVALID_REQUEST", "NOT_FOUND", "TIMESTAMP_EXPIRED", "INVALID_SIGNATURE"}

\* Two bodies with the same timestamp and signature and another payload.
DifferInPayload(b1, b2) ==
    /\ b1.timestamp = b2.timestamp
    /\ b1.signature = b2.signature
    /\ b1.payload # b2.payload

\* A payload of the shape its update takes: a contact whose email, if any,
\* is a well-formed address.
WellFormedPayload(kind, payload) ==
    kind = "contact" => payload.email \in {"a@x.org", "b@x.org"}

\* How the handler would take the request up to its await, from this state.
StartOutcome(r, kind, didOrName, body) ==
    {o \in UpdateOutcomes :
        ENABLED ( /\ UpdateStart(r, kind, didOrName, body)
                  /\ \/ pc'[r] = "await" /\ o = "await"
                     \/ pc'[r] = "done" /\ resp'[r].code = o )}

\* How the handler would end the request after its await, from this state.
FinishOutcome(r) ==
    {o \in UpdateOutcomes :
        ENABLED ( /\ ContactFinish(r) \/ CapabilitiesFinish(r)
                  /\ resp'[r].code = o )}

\* Requests of one kind to one record, waiting at the signature check with
\* the same timestamp and signature and different payloads.
AwaitTogether(r, q) ==
    /\ pc[r] = "await" /\ pc[q] = "await"
    /\ req[r].kind \in UpdateKinds /\ req[q].kind = req[r].kind
    /\ req[r].soul = req[q].soul
    /\ DifferInPayload(req[r].body, req[q].body)

\* C33 as amended: in every state, two contact or capabilities requests for
\* the same subject that differ only in a well-formed payload are taken alike
\* by every gate, up to the await and after it: with one (timestamp,
\* signature) pair both are accepted or both are refused with the same code.
C33_PayloadIndependence ==
    /\ \A r \in Reqs : \A kind \in UpdateKinds : \A d \in {DidA, <<"c">>} :
         \A b1, b2 \in BodiesOf(kind) :
            ( /\ MayStart(r)
              /\ DifferInPayload(b1, b2)
              /\ WellFormedPayload(kind, b1.payload)
              /\ WellFormedPayload(kind, b2.payload) )
            => StartOutcome(r, kind, d, b1) = StartOutcome(r, kind, d, b2)
    /\ \A r, q \in Reqs :
         AwaitTogether(r, q) => FinishOutcome(r) = FinishOutcome(q)

\* C33's case: two contact updates with one timestamp and one signature and
\* different contacts were both answered OK, and the record's contact was
\* replaced twice.
C33_Witness ==
    \E r, q \in Reqs :
        /\ pc[r] = "done" /\ pc[q] = "done"
        /\ req[r].kind = "contact" /\ req[q].kind = "contact"
        /\ DifferInPayload(req[r].body, req[q].body)
        /\ resp[r].code = "OK" /\ resp[q].code = "OK"
        /\ souls[1].version = 3

\* C33: in every state, two contact or capabilities requests for the same
\* subject that differ only in the payload, whatever it is, are both
\* accepted or both refused.
C33_AnyPayload ==
    \A r \in Reqs : \A kind \in UpdateKinds : \A d \in {DidA, <<"c">>} :
        \A b1, b2 \in BodiesOf(kind) :
            (MayStart(r) /\ DifferInPayload(b1, b2))
            => StartOutcome(r, kind, d, b1) = StartOutcome(r, kind, d, b2)

====
